---- MODULE Spec2Model ----
(***************************************************************************)
(* Discovery-and-enrichment pipeline of the Xandeum pNode dashboard:       *)
(* PNodeService (services/pnode) and the usePNodes hook.                   *)
(*                                                                         *)
(* JavaScript runs each continuation to completion, so one action is one   *)
(* run-to-completion segment: from the event that resumes an async         *)
(* function (a network response, a timer) to the next await on the         *)
(* network or on a timer.  React state setters are applied in call order.  *)
(*                                                                         *)
(* Strings that the code splits or pattern-matches are sequences of        *)
(* one-character strings; an address literal "ip:port" is kept as a record *)
(* with its parsed parts and the key the code synthesizes from them.       *)
(* Ports other than the address port, lastUpdate, featureSet and           *)
(* shredVersion are carried by the code unread and are left out.           *)
(***************************************************************************)
EXTENDS Integers, Sequences, FiniteSets, TLC

(***************************************************************************)
(* Bounds of the model.                                                    *)
(***************************************************************************)
\* Number of refresh cycles (calls of refreshNodes) that may be started.
MaxCycles == 2
\* Longest array of a getClusterNodes response given to the selection alone.
MaxEntries == 3
\* Longest node list given to the deduplication alone.
MaxNodes == 3
\* Width of a direct-query batch (8 in the source), scaled down.
batchSize == 2

(***************************************************************************)
(* Null values: one per modelled type, so that values stay comparable.     *)
(***************************************************************************)
NULL == "NULL"                    \* null / undefined string
NullVersion == <<"NULL">>         \* null / undefined version string
NoLatency == -1                   \* latency: null
NoLocation == [of |-> NULL]       \* location: undefined

(***************************************************************************)
(* Constants of services/pnode.                                            *)
(***************************************************************************)
AllKnownIps ==
  << "157.173.125.223", "157.173.197.106", "161.156.85.177", "194.238.24.91",
     "157.173.197.103", "194.238.24.87", "154.38.175.38", "194.238.24.94",
     "194.238.24.96", "37.60.250.209", "37.60.255.42", "194.238.24.95",
     "38.242.207.242", "109.199.96.218", "194.238.24.97", "160.202.38.95" >>

\* `pnode-${ip.replace(/\./g, '-')}-${port}` for the addresses above
AllKnownKeys ==
  << "pnode-157-173-125-223-9001", "pnode-157-173-197-106-9001",
     "pnode-161-156-85-177-9001", "pnode-194-238-24-91-9001",
     "pnode-157-173-197-103-9001", "pnode-194-238-24-87-9001",
     "pnode-154-38-175-38-9001", "pnode-194-238-24-94-9001",
     "pnode-194-238-24-96-9001", "pnode-37-60-250-209-9001",
     "pnode-37-60-255-42-9001", "pnode-194-238-24-95-9001",
     "pnode-38-242-207-242-9001", "pnode-109-199-96-218-9001",
     "pnode-194-238-24-97-9001", "pnode-160-202-38-95-9001" >>

\* The reference list is 16 addresses (two batches of 8) in the source; the
\* model keeps its first batchSize + 1 entries, which still span two batches.
NumKnown == batchSize + 1

KNOWN_PNODE_ADDRESSES ==
  [i \in 1..NumKnown |->
     [ip |-> AllKnownIps[i], port |-> 9001, key |-> AllKnownKeys[i]]]

XANDEUM_RPC_ENDPOINTS ==
  << "http://xand-rpc2.devnet.xandeum.com:8899",
     "https://api.mainnet-beta.solana.com",
     "https://solana-mainnet.g.alchemy.com/v2/demo",
     "https://rpc.ankr.com/solana" >>

\* Endpoints the user may type into the endpoint field and save.
UserEndpoints == { "https://rpc.example.org" }

\* Addresses the user may add (addCustomPNode): one private-range address.
CustomChoices ==
  { [ip |-> "192.168.1.5", port |-> 9001, key |-> "pnode-192-168-1-5-9001"] }

(***************************************************************************)
(* Version strings.                                                        *)
(***************************************************************************)
Digit == {"0", "1", "2", "3", "4", "5", "6", "7", "8", "9"}
HexLower == Digit \cup {"a", "b", "c", "d", "e", "f"}

V_PNODE == <<"0", ".", "8", "0", "6", ".", "3", "0", "1", "0", "2">>
V_VNODE == <<"2", ".", "2", ".", "0", "-", "7", "c", "3", "f", "3", "9", "e", "8">>
V_SOLANA == <<"1", ".", "1", "8", ".", "2">>
V_EMPTY == << >>

AllIn(v, lo, hi, S) == \A k \in lo..hi : v[k] \in S

\* /^0\.\d{3}\.\d{5}$/
pnodePattern(v) ==
  /\ Len(v) = 11
  /\ v[1] = "0" /\ v[2] = "." /\ v[6] = "."
  /\ AllIn(v, 3, 5, Digit)
  /\ AllIn(v, 7, 11, Digit)

\* vnodePattern taking upper-case letters in the hash as well: C25 must
\* tell the two apart.
vnodePatternAnyCase(v) ==
  /\ Len(v) >= 14
  /\ v[Len(v) - 8] = "-"
  /\ AllIn(v, Len(v) - 7, Len(v), HexLower \cup {"A", "B", "C", "D", "E", "F"})
  /\ \E p \in 2..(Len(v) - 11) : \E q \in (p + 2)..(Len(v) - 10) :
        /\ v[p] = "." /\ v[q] = "."
        /\ AllIn(v, 1, p - 1, Digit)
        /\ AllIn(v, p + 1, q - 1, Digit)
        /\ AllIn(v, q + 1, Len(v) - 9, Digit)

\* /^\d+\.\d+\.\d+-[a-f0-9]{8}$/ : dots at p and q, hyphen at Len(v) - 8
vnodePattern(v) ==
  /\ Len(v) >= 14
  /\ v[Len(v) - 8] = "-"
  /\ AllIn(v, Len(v) - 7, Len(v), HexLower)
  /\ \E p \in 2..(Len(v) - 11) : \E q \in (p + 2)..(Len(v) - 10) :
        /\ v[p] = "." /\ v[q] = "."
        /\ AllIn(v, 1, p - 1, Digit)
        /\ AllIn(v, p + 1, q - 1, Digit)
        /\ AllIn(v, q + 1, Len(v) - 9, Digit)

isXandeumVersion(version) ==
  IF version = NullVersion \/ version = V_EMPTY
    THEN FALSE
    ELSE pnodePattern(version) \/ vnodePattern(version)

(***************************************************************************)
(* Sequence helpers.                                                       *)
(***************************************************************************)
Min(a, b) == IF a < b THEN a ELSE b

Indices(s) == 1..Len(s)

\* Array.prototype.filter is SelectSeq.

\* Array.prototype.findIndex on pubkey, 1-based; 0 when absent (-1 in JS)
FindIndex(s, pubkey) ==
  IF \E i \in Indices(s) : s[i].pubkey = pubkey
    THEN CHOOSE i \in Indices(s) :
           /\ s[i].pubkey = pubkey
           /\ \A j \in 1..(i - 1) : s[j].pubkey # pubkey
    ELSE 0

HasKey(s, pubkey) == \E i \in Indices(s) : s[i].pubkey = pubkey

\* MapSet pushing the value whether or not the key exists: C17 must tell the
\* two apart.
MapSetPush(m, node) == Append(m, node)

\* Map.prototype.set on a Map kept as the sequence of its values in insertion
\* order: an existing key keeps its position and takes the new value.
MapSet(m, node) ==
  IF HasKey(m, node.pubkey)
    THEN [m EXCEPT ![FindIndex(m, node.pubkey)] = node]
    ELSE Append(m, node)

(***************************************************************************)
(* Cluster-node entries of a getClusterNodes response.  obj = FALSE is an  *)
(* entry that is no object (JSON null): reading a property of it throws.   *)
(***************************************************************************)
Raw(pubkey, gossipIp, rpcIp, version) ==
  [obj |-> TRUE, pubkey |-> pubkey, gossipIp |-> gossipIp, rpcIp |-> rpcIp,
   version |-> version]

NullEntry ==
  [obj |-> FALSE, pubkey |-> NULL, gossipIp |-> NULL, rpcIp |-> NULL,
   version |-> NullVersion]

Truthy(str) == str # NULL /\ str # ""

\* node.gossip?.split(':')[0] || node.rpc?.split(':')[0]
RawIp(node) ==
  IF Truthy(node.gossipIp) THEN node.gossipIp
  ELSE IF Truthy(node.rpcIp) THEN node.rpcIp
  ELSE ""

PNode(pubkey, version, health, latency, isPNode, ip) ==
  [pubkey |-> pubkey, version |-> version, health |-> health,
   latency |-> latency, isPNode |-> isPNode, ip |-> ip,
   location |-> NoLocation]

mapClusterNodeToPNode(node) ==
  PNode(IF Truthy(node.pubkey) THEN node.pubkey ELSE "",
        IF node.version = V_EMPTY THEN NullVersion ELSE node.version,
        "healthy", NoLatency, isXandeumVersion(node.version), RawIp(node))

MapNodes(raws) == [i \in Indices(raws) |-> mapClusterNodeToPNode(raws[i])]

knownIps == { KNOWN_PNODE_ADDRESSES[i].ip : i \in Indices(KNOWN_PNODE_ADDRESSES) }

IsXandeumRaw(node) == isXandeumVersion(node.version)

IsKnownIpRaw(node) == Truthy(RawIp(node)) /\ RawIp(node) \in knownIps

\* combinedNodes: the fold of Map.set over [...xandeumNodes, ...knownIpNodes]
RECURSIVE Combine(_, _)
Combine(m, raws) ==
  IF raws = << >> THEN m
  ELSE Combine(IF Truthy(Head(raws).pubkey) THEN MapSet(m, Head(raws)) ELSE m,
               Tail(raws))

\* A response array whose processing throws inside the try block.
ArrayThrows(allNodes) == \E i \in Indices(allNodes) : ~allNodes[i].obj

\* Lines 524-551: the list returned for a well-formed array response.
ClusterSelect(allNodes) ==
  LET xandeumNodes == SelectSeq(allNodes, IsXandeumRaw)
      knownIpNodes == SelectSeq(allNodes, IsKnownIpRaw)
      pnodes == Combine(<< >>, xandeumNodes \o knownIpNodes)
  IN IF Len(pnodes) = 0 THEN MapNodes(allNodes) ELSE MapNodes(pnodes)

(***************************************************************************)
(* Direct-query fallback: the record built for one polled address.         *)
(* A call result is what rpcCallToNode resolved to; `null` results are     *)
(* NULL (getHealth), ok = FALSE (getVersion, getIdentity) and kind =       *)
(* "null" (getClusterNodes); kind = "other" is a getClusterNodes result    *)
(* that is neither null nor an array.                                      *)
(***************************************************************************)
NoCluster == [kind |-> "null", list |-> << >>]

\* let health = 'unknown', version = null, identity = null, latency = null,
\* clusterNodes = null
NewPart ==
  [health |-> "unknown", version |-> NullVersion, identity |-> NULL,
   latency |-> NoLatency, clusterNodes |-> NoCluster]

HealthOk(result) == result = "ok" \/ result = "status:ok"

OnHealth(part, result, latency) ==
  IF result # NULL
    THEN [part EXCEPT !.latency = latency,
                      !.health = IF HealthOk(result) THEN "healthy" ELSE "unhealthy"]
    ELSE part

\* OnVersion setting healthy whatever getHealth said: C18 must tell the two
\* apart.
OnVersionOverrides(part, result, latency) ==
  IF result.ok
    THEN [part EXCEPT
            !.version = IF result.core = V_EMPTY THEN NullVersion ELSE result.core,
            !.latency = IF part.latency = NoLatency THEN latency ELSE @,
            !.health = "healthy"]
    ELSE part

\* result.core stands for result['solana-core'] || result.version
OnVersion(part, result, latency) ==
  IF result.ok
    THEN [part EXCEPT
            !.version = IF result.core = V_EMPTY THEN NullVersion ELSE result.core,
            !.latency = IF part.latency = NoLatency THEN latency ELSE @,
            !.health = IF part.health = "unknown" THEN "healthy" ELSE @]
    ELSE part

\* result.id stands for result.identity || result.pubkey
OnIdentity(part, result, latency) ==
  IF result.ok
    THEN [part EXCEPT
            !.identity = IF Truthy(result.id) THEN result.id ELSE NULL,
            !.latency = IF part.latency = NoLatency THEN latency ELSE @,
            !.health = IF part.health = "unknown" THEN "healthy" ELSE @]
    ELSE part

\* clusterResult.result && Array.isArray(clusterResult.result)
OnCluster(part, result) ==
  IF result.kind = "array"
    THEN [part EXCEPT !.clusterNodes = result,
                      !.health = IF part.health = "unknown" THEN "healthy" ELSE @]
    ELSE part

\* connectedCount++ sits in the getHealth and in the getVersion branch.
CountsAsConnected(call, o) ==
  \/ call = 1 /\ o.health # NULL
  \/ call = 2 /\ o.version.ok

\* The handler of the call-th response (1 getHealth .. 4 getClusterNodes).
OnResponse(part, call, o) ==
  CASE call = 1 -> OnHealth(part, o.health, o.lat[1])
    [] call = 2 -> OnVersion(part, o.version, o.lat[2])
    [] call = 3 -> OnIdentity(part, o.identity, o.lat[3])
    [] OTHER    -> OnCluster(part, o.cluster)

\* Lines 667-685: the node returned for the address.
PolledNode(address, part) ==
  PNode(IF part.identity # NULL THEN part.identity ELSE address.key,
        part.version, part.health, part.latency, TRUE, address.ip)

\* Lines 704-719: a neighbour entry pushed when its key is not present yet.
NeighbourNode(clusterNode) ==
  PNode(clusterNode.pubkey,
        IF clusterNode.version = V_EMPTY THEN NullVersion ELSE clusterNode.version,
        "unknown", NoLatency, TRUE,
        IF clusterNode.gossipIp = NULL THEN "" ELSE clusterNode.gossipIp)

RECURSIVE AddNeighbours(_, _)
AddNeighbours(nodes, clusterNodes) ==
  IF clusterNodes = << >> THEN nodes
  ELSE LET clusterNode == Head(clusterNodes)
       IN AddNeighbours(
            IF Truthy(clusterNode.pubkey) /\ ~HasKey(nodes, clusterNode.pubkey)
              THEN Append(nodes, NeighbourNode(clusterNode))
              ELSE nodes,
            Tail(clusterNodes))

\* AddResults pushing a record only for an address that answered: C30 must
\* tell the two apart.
RECURSIVE AddResultsAnsweredOnly(_, _, _)
AddResultsAnsweredOnly(nodes, batch, parts) ==
  IF batch = << >> THEN nodes
  ELSE AddResultsAnsweredOnly(
         AddNeighbours(IF Head(parts).health = "unknown"
                         THEN nodes
                         ELSE Append(nodes, PolledNode(Head(batch), Head(parts))),
                       Head(parts).clusterNodes.list),
         Tail(batch), Tail(parts))

\* Lines 690-723 for the results of one batch, in batch order.
RECURSIVE AddResults(_, _, _)
AddResults(nodes, batch, parts) ==
  IF batch = << >> THEN nodes
  ELSE AddResults(
         AddNeighbours(Append(nodes, PolledNode(Head(batch), Head(parts))),
                       Head(parts).clusterNodes.list),
         Tail(batch), Tail(parts))

\* The loop over result.clusterNodes reads a property of every entry.
ResultsThrow(parts) ==
  \E i \in Indices(parts) : ArrayThrows(parts[i].clusterNodes.list)

\* MoreInfo taking any known latency for more information: C15 must tell
\* the two apart.
MoreInfoAnyLatency(node, existing) ==
  \/ node.health = "healthy" /\ existing.health # "healthy"
  \/ node.latency # NoLatency

\* Lines 733-745: deduplicate by pubkey.
MoreInfo(node, existing) ==
  \/ node.health = "healthy" /\ existing.health # "healthy"
  \/ node.latency # NoLatency /\ existing.latency = NoLatency

RECURSIVE Dedup(_, _)
Dedup(uniqueNodes, nodes) ==
  IF nodes = << >> THEN uniqueNodes
  ELSE LET node == Head(nodes)
       IN Dedup(IF ~HasKey(uniqueNodes, node.pubkey)
                     \/ MoreInfo(node, uniqueNodes[FindIndex(uniqueNodes, node.pubkey)])
                  THEN MapSet(uniqueNodes, node)
                  ELSE uniqueNodes,
                Tail(nodes))

\* BatchAt with a slice one address too long: C9 must tell the two apart.
BatchAtTooWide(addresses, i) ==
  SubSeq(addresses, i + 1, Min(i + batchSize + 1, Len(addresses)))

\* batch = addresses.slice(i, i + batchSize), i counted from 0
BatchAt(addresses, i) == SubSeq(addresses, i + 1, Min(i + batchSize, Len(addresses)))

(***************************************************************************)
(* usePNodes: the pure parts of refreshNodes and enrichNodeWithGeo.        *)
(***************************************************************************)
healthOrder(health) ==
  CASE health = "healthy" -> 0
    [] health = "unknown" -> 1
    [] OTHER              -> 2

\* The comparator orders by (isPNode first, healthOrder); Array.prototype.sort
\* is stable, so nodes of equal rank keep their order.
Rank(n) == (IF n.isPNode THEN 0 ELSE 3) + healthOrder(n.health)

RECURSIVE SortFrom(_, _)
SortFrom(s, rank) ==
  IF rank > 5 THEN << >>
  ELSE LET AtRank(n) == Rank(n) = rank
       IN SelectSeq(s, AtRank) \o SortFrom(s, rank + 1)

SortNodes(fetchedNodes) == SortFrom(fetchedNodes, 0)

RECURSIVE SumLatency(_)
SumLatency(s) == IF s = << >> THEN 0 ELSE Head(s).latency + SumLatency(Tail(s))

\* RoundDiv truncating instead of rounding: C7 must tell the two apart.
RoundDivTruncated(sum, n) == sum \div n

\* Math.round of a non-negative quotient
RoundDiv(sum, n) == (2 * sum + n) \div (2 * n)

IsHealthy(n) == n.health = "healthy"
HasLatency(n) == n.latency # NoLatency

\* Lines 76-88 (tps and currentSlot are always 0 and left out)
ComputeStats(sortedNodes) ==
  LET nodesWithLatency == SelectSeq(sortedNodes, HasLatency)
  IN [totalNodes |-> Len(sortedNodes),
      healthyNodes |-> Len(SelectSeq(sortedNodes, IsHealthy)),
      avgLatency |-> IF Len(nodesWithLatency) > 0
                       THEN RoundDiv(SumLatency(nodesWithLatency), Len(nodesWithLatency))
                       ELSE 0]

ZeroStats == [totalNodes |-> 0, healthyNodes |-> 0, avgLatency |-> 0]

\* The slice bound of line 91 (17 in the source), scaled down so that the
\* lists of the model exceed it.
GeoCap == 2

HasIp(n) == n.ip # ""

\* Candidates with a slice one node too long: C20 must tell the two apart.
CandidatesOneMore(sortedNodes) ==
  LET withIp == SelectSeq(sortedNodes, HasIp)
  IN SubSeq(withIp, 1, Min(GeoCap + 1, Len(withIp)))

\* sortedNodes.filter(n => n.ip).slice(0, 17)
Candidates(sortedNodes) ==
  LET withIp == SelectSeq(sortedNodes, HasIp)
  IN SubSeq(withIp, 1, Min(GeoCap, Len(withIp)))

\* ip.startsWith('10.') and ip.startsWith('192.168.') on the IPs of the model
StartsWith10(ip) == ip \in {"10.0.0.5"}
StartsWith192168(ip) == ip \in {"192.168.1.5"}

\* getGeoLocation issues a request only for these IPs (line 834)
GeoUsable(ip) ==
  ~(ip = "" \/ ip = "0.0.0.0" \/ ip = "127.0.0.1"
      \/ StartsWith10(ip) \/ StartsWith192168(ip))

\* The location the geo service reports for an IP.
GeoOf(ip) == [of |-> ip]

\* EnrichUpdate without the test of updated[index], writing past the end
\* of the list: C29 must tell the two apart.
EnrichUpdateSparse(prev, index, location) ==
  IF index \in Indices(prev)
    THEN [prev EXCEPT ![index].location = location]
    ELSE Append(prev, [location |-> location])

\* The setNodes updater of enrichNodeWithGeo; index is 1-based here.
EnrichUpdate(prev, index, location) ==
  IF index \in Indices(prev)
    THEN [prev EXCEPT ![index].location = location]
    ELSE prev

(***************************************************************************)
(* The environment: what the contacted hosts may answer.                   *)
(***************************************************************************)
\* Bodies of an HTTP-ok getClusterNodes response of a central endpoint whose
\* result is an array and that carries no error field.
B_EMPTY == << >>
\* idA: Xandeum version and known IP (in both subsets); idB: known IP by its
\* rpc field only; idC: neither.
B_XAND ==
  << Raw("idA", AllKnownIps[2], NULL, V_PNODE),
     Raw("idB", NULL, AllKnownIps[1], V_SOLANA),
     Raw("idC", "8.8.8.8", NULL, V_SOLANA) >>
\* No entry matches; two entries carry no pubkey.
B_ANON ==
  << Raw(NULL, NULL, NULL, V_SOLANA),
     Raw(NULL, "8.8.8.8", NULL, V_SOLANA) >>
\* One entry, a devnet vNode.
B_SOLO == << Raw("idC", "8.8.8.8", NULL, V_VNODE) >>
\* An array with an entry that is no object.
B_BADENTRY == << NullEntry >>
\* Four pNodes, the first with a private-range gossip address.
B_PRIV ==
  << Raw("idP", "10.0.0.5", NULL, V_PNODE),
     Raw("idQ", "8.8.8.8", NULL, V_PNODE),
     Raw("idR", "8.8.4.4", NULL, V_PNODE),
     Raw("idS", "1.1.1.1", NULL, V_PNODE) >>

ClusterBodies == {B_EMPTY, B_XAND, B_ANON, B_SOLO, B_BADENTRY, B_PRIV}

NoVersionResult == [ok |-> FALSE, core |-> V_EMPTY]
NoIdentityResult == [ok |-> FALSE, id |-> ""]

\* Every call to the address resolves to a null result.
DeadOutcome ==
  [health |-> NULL, version |-> NoVersionResult, identity |-> NoIdentityResult,
   cluster |-> NoCluster, lat |-> <<12, 24, 36, 48>>]

\* What one address answers to its four calls, per scenario of a pass.
PollScenarios == {"dead", "live", "badentry"}

LiveOutcome(ip) ==
  CASE ip = AllKnownIps[1] ->
         [health |-> "ok",
          version |-> [ok |-> TRUE, core |-> V_PNODE],
          identity |-> [ok |-> TRUE, id |-> "idA"],
          cluster |-> [kind |-> "array",
                       list |-> << Raw("idA", AllKnownIps[1], NULL, V_PNODE),
                                   Raw("idN", "8.8.4.4", NULL, V_SOLANA) >>],
          lat |-> <<41, 82, 123, 164>>]
    [] ip = AllKnownIps[2] ->
         [health |-> NULL,
          version |-> [ok |-> TRUE, core |-> V_EMPTY],
          identity |-> NoIdentityResult,
          cluster |-> NoCluster,
          lat |-> <<28, 56, 84, 112>>]
    [] ip = AllKnownIps[3] ->
         [health |-> "behind",
          version |-> NoVersionResult,
          identity |-> [ok |-> TRUE, id |-> "idN"],
          cluster |-> NoCluster,
          lat |-> <<70, 140, 210, 280>>]
    [] OTHER -> DeadOutcome

Outcome(scen, address) ==
  CASE scen = "live" -> LiveOutcome(address.ip)
    [] scen = "badentry" /\ address.ip = AllKnownIps[1] ->
         [DeadOutcome EXCEPT !.cluster = [kind |-> "array", list |-> B_BADENTRY]]
    [] OTHER -> DeadOutcome

\* An environment: the array bodies an answering endpoint may send, the
\* endpoints that may answer at all, and the scenarios of a fallback pass.
AnyEnv ==
  [bodies |-> ClusterBodies,
   answering |-> {XANDEUM_RPC_ENDPOINTS[j] : j \in Indices(XANDEUM_RPC_ENDPOINTS)},
   scens |-> PollScenarios]

\* Two central endpoints answer, with a node list; polled hosts answer as
\* in the live scenario, or are unreachable but for one that lists a
\* neighbour entry that is no object.
SmallEnv ==
  [bodies |-> {B_XAND, B_SOLO},
   answering |-> {XANDEUM_RPC_ENDPOINTS[1], XANDEUM_RPC_ENDPOINTS[2]},
   scens |-> {"badentry", "live"}]

UNREACHABLE == "Unable to reach any of the known pNodes"

(***************************************************************************)
(* State.                                                                  *)
(***************************************************************************)
VARIABLES
  nodes,               \* usePNodes: useState nodes
  stats,               \* usePNodes: useState stats
  loading,             \* usePNodes: useState loading
  connectionStatus,    \* usePNodes: useState connectionStatus
  customPNodes,        \* PNodeService.customPNodes
  centralRpcEndpoint,  \* PNodeService.centralRpcEndpoint
  localStorage,        \* the two keys the service persists
  isConnected,         \* PNodeService.isConnected
  lastError,           \* PNodeService.lastError
  rpcEndpoint,         \* Dashboard: useState rpcEndpoint (the endpoint field)
  cyc,                 \* per call of refreshNodes: position and locals
  solo                 \* a function called on its own: arguments and result

vars == <<nodes, stats, loading, connectionStatus, customPNodes,
          centralRpcEndpoint, localStorage, isConnected, lastError,
          rpcEndpoint, cyc, solo>>

hookVars == <<nodes, stats, loading, connectionStatus>>
serviceVars == <<customPNodes, centralRpcEndpoint, localStorage, isConnected, lastError>>
\* What no step of a refresh cycle touches.
asideVars == <<rpcEndpoint, solo>>

Cycles == 1..MaxCycles

\* pc: "idle" not called yet; "cluster" awaiting the response of endpoint ep;
\* "poll" awaiting the calls of a batch; "geo" awaiting a geo-lookup;
\* "pause" in the 1.5 s timer; "done" returned.
NoList == [isNull |-> TRUE, list |-> << >>]

IdleCycle ==
  [pc |-> "idle",
   endpoints |-> << >>, ep |-> 0,           \* tryGetClusterNodesFromRpc
   rpcNodes |-> NoList,                     \* getPnodeGossip: rpcNodes
   polling |-> FALSE, scen |-> "dead",      \* fallback entered; what hosts answer
   addresses |-> << >>, i |-> 0,            \* getPnodeGossip: addresses, i
   batch |-> << >>,                         \* getPnodeGossip: batch
   calls |-> << >>, parts |-> << >>,        \* per address of the batch: calls
                                            \* answered, locals so far
   contacted |-> << >>, batches |-> 0,      \* history: addresses polled, batches
   completed |-> {},                        \* history: addresses whose task ended
   lookups |-> 0,                           \* history: geo requests issued
   lastGeo |-> "none",                      \* history: how the last one ended
   acc |-> << >>, connectedCount |-> 0,     \* getPnodeGossip: nodes, connectedCount
   fetched |-> << >>,                       \* refreshNodes: fetchedNodes as returned
   sortedNodes |-> << >>, nodesWithIp |-> << >>, gi |-> 0,   \* refreshNodes
   failed |-> FALSE,                        \* the call set the state to error
   threw |-> FALSE]                         \* the catch block of the call ran

\* A returned call keeps how its discovery went and drops its other locals.
DoneOf(rec) ==
  [IdleCycle EXCEPT !.pc = "done", !.rpcNodes = [rec.rpcNodes EXCEPT !.list = << >>],
                    !.polling = rec.polling, !.connectedCount = rec.connectedCount,
                    !.failed = rec.failed, !.lookups = rec.lookups,
                    !.lastGeo = rec.lastGeo, !.threw = rec.threw]

\* No function is being called on its own.
NoCall == [fn |-> "none"]

\* The program after construction and first render.
Boot ==
  /\ nodes = << >>
  /\ stats = ZeroStats
  /\ loading = TRUE
  /\ connectionStatus = "connecting"
  /\ customPNodes = << >>
  /\ centralRpcEndpoint = NULL
  /\ localStorage = [rpcEndpoint |-> NULL, customPNodes |-> << >>]
  /\ isConnected = FALSE
  /\ lastError = NULL
  /\ rpcEndpoint = ""
  /\ cyc = [c \in Cycles |-> IdleCycle]

Init == Boot /\ solo = NoCall


(***************************************************************************)
(* refreshNodes, from the return of getPnodeGossip to the next await.      *)
(***************************************************************************)
\* finally { setLoading(false) } and return
Finish(c, rec) ==
  /\ loading' = FALSE
  /\ cyc' = [cyc EXCEPT ![c] = DoneOf(rec)]

\* AfterLookup leaving the loop after the first candidate: C26 must tell
\* the two apart.
AfterLookupAborts(c, rec) == Finish(c, rec)

\* After enrichNodeWithGeo returned for candidate gi: pause unless it was the last.
AfterLookup(c, rec) ==
  IF rec.gi < Len(rec.nodesWithIp)
    THEN /\ cyc' = [cyc EXCEPT ![c] = [rec EXCEPT !.pc = "pause"]]
         /\ UNCHANGED loading
    ELSE Finish(c, rec)

\* Loop iteration gi: enrichNodeWithGeo(node, idx) up to the request of
\* getGeoLocation, which is skipped for an unusable IP.
Iterate(c, rec) ==
  IF rec.gi > Len(rec.nodesWithIp)
    THEN Finish(c, rec)
    ELSE IF GeoUsable(rec.nodesWithIp[rec.gi].ip)
           THEN /\ cyc' = [cyc EXCEPT ![c] = [rec EXCEPT !.pc = "geo", !.lookups = @ + 1]]
                /\ UNCHANGED loading
           ELSE AfterLookup(c, rec)

\* Lines 60-95 for a non-empty fetchedNodes.
Publish(c, rec, fetchedNodes) ==
  LET sortedNodes == SortNodes(fetchedNodes)
  IN /\ connectionStatus' = "connected"
     /\ nodes' = sortedNodes
     /\ stats' = ComputeStats(sortedNodes)
     /\ Iterate(c, [rec EXCEPT !.fetched = fetchedNodes,
                               !.sortedNodes = sortedNodes,
                               !.nodesWithIp = Candidates(sortedNodes),
                               !.gi = 1])

\* Lines 54-58: the zero-nodes branch.
NoNodes(c, rec) ==
  /\ connectionStatus' = "error"
  /\ UNCHANGED <<nodes, stats>>
  /\ Finish(c, [rec EXCEPT !.failed = TRUE])

\* getPnodeGossip returned fetchedNodes.
Resume(c, rec, fetchedNodes) ==
  IF Len(fetchedNodes) = 0
    THEN NoNodes(c, rec)
    ELSE Publish(c, rec, fetchedNodes)

\* getPnodeGossip rejected: catch and finally (lines 101-106).
Caught(c, rec) ==
  /\ connectionStatus' = "error"
  /\ UNCHANGED <<nodes, stats>>
  /\ Finish(c, [rec EXCEPT !.failed = TRUE, !.threw = TRUE])


(***************************************************************************)
(* PNodeService.getPnodeGossip and tryGetClusterNodesFromRpc.  The         *)
(* transport attempts inside rpcCallToNode are collapsed to the result the *)
(* call resolves to.                                                       *)
(***************************************************************************)
getAllPNodeAddresses == KNOWN_PNODE_ADDRESSES \o customPNodes

\* Line 486: the endpoint list of one pass
EndpointList(central) ==
  IF central # NULL /\ central # ""
    THEN <<central>> \o XANDEUM_RPC_ENDPOINTS
    ELSE XANDEUM_RPC_ENDPOINTS

\* ClusterSucceeded taking a list of one node for empty: C8 must tell the
\* two apart.
ClusterSucceededOffByOne(rpcNodes) == ~rpcNodes.isNull /\ Len(rpcNodes.list) > 1

\* Line 600: rpcNodes && rpcNodes.length > 0
ClusterSucceeded(rpcNodes) == ~rpcNodes.isNull /\ Len(rpcNodes.list) > 0

\* Lines 612-615: the calls of batch i start together, each with getHealth.
StartBatch(rec, i) ==
  LET batch == BatchAt(rec.addresses, i)
  IN [rec EXCEPT !.pc = "poll", !.i = i, !.batch = batch,
                 !.calls = [k \in Indices(batch) |-> 0],
                 !.parts = [k \in Indices(batch) |-> NewPart],
                 !.contacted = @ \o batch,
                 !.batches = @ + 1]

\* Lines 599-611 once tryGetClusterNodesFromRpc has returned rpcNodes.
ClusterReturn(c, rec, rpcNodes, env) ==
  LET r == [rec EXCEPT !.rpcNodes = rpcNodes]
  IN \/ /\ ClusterSucceeded(rpcNodes)
        /\ isConnected' = TRUE
        /\ UNCHANGED lastError
        /\ Resume(c, r, rpcNodes.list)
     \/ /\ ~ClusterSucceeded(rpcNodes)
        /\ \E scen \in env.scens :
             cyc' = [cyc EXCEPT ![c] =
                       StartBatch([r EXCEPT !.polling = TRUE, !.scen = scen,
                                            !.addresses = getAllPNodeAddresses], 0)]
        /\ UNCHANGED <<hookVars, isConnected, lastError>>

\* `continue` and the catch block of the endpoint loop: the next endpoint is
\* requested, or the loop ends and null is returned.
NextEndpoint(c, rec, env) ==
  IF rec.ep < Len(rec.endpoints)
    THEN /\ cyc' = [cyc EXCEPT ![c] = [rec EXCEPT !.ep = @ + 1]]
         /\ UNCHANGED <<hookVars, isConnected, lastError>>
    ELSE ClusterReturn(c, [rec EXCEPT !.ep = @ + 1], NoList, env)

\* refreshNodes is called (initial load, timer tick, button, saved endpoint):
\* lines 48-52, 596 and 486-502.  Calls are numbered in the order they start.
Begin(c, central) ==
  /\ cyc[c].pc = "idle"
  /\ \A d \in 1..(c - 1) : cyc[d].pc # "idle"
  /\ loading' = TRUE
  /\ connectionStatus' = "connecting"
  /\ lastError' = NULL
  /\ cyc' = [cyc EXCEPT ![c] = [@ EXCEPT !.pc = "cluster",
                                         !.endpoints = EndpointList(central),
                                         !.ep = 1]]
  /\ UNCHANGED <<nodes, stats, customPNodes, isConnected, solo>>

refreshNodes(c) ==
  /\ Begin(c, centralRpcEndpoint)
  /\ UNCHANGED <<centralRpcEndpoint, localStorage, rpcEndpoint>>

\* rpcEndpoint.trim() || null for a text without surrounding blanks
TrimOrNull(text) == IF text = "" THEN NULL ELSE text

\* Save & Refresh with the endpoint field holding `text`:
\* setCentralRpcEndpoint(rpcEndpoint.trim() || null), then refreshNodes().
handleSaveRpcEndpoint(c, text) ==
  /\ rpcEndpoint' = text
  /\ centralRpcEndpoint' = TrimOrNull(text)
  /\ localStorage' = [localStorage EXCEPT !.rpcEndpoint = TrimOrNull(text)]
  /\ Begin(c, centralRpcEndpoint')

\* The endpoint failed: network error, timeout, status not ok, an error field,
\* or a result that is no array (lines 504, 507, 552).
ClusterFail(c, env) ==
  /\ cyc[c].pc = "cluster"
  /\ NextEndpoint(c, cyc[c], env)
  /\ UNCHANGED <<customPNodes, centralRpcEndpoint, localStorage, asideVars>>

\* The endpoint answered ok with an array result and no error field
\* (lines 509-551).
ClusterArray(c, env) ==
  /\ cyc[c].pc = "cluster"
  /\ cyc[c].endpoints[cyc[c].ep] \in env.answering
  /\ \E allNodes \in env.bodies :
       LET endpoint == cyc[c].endpoints[cyc[c].ep]
       IN /\ centralRpcEndpoint' = endpoint
          /\ localStorage' = [localStorage EXCEPT !.rpcEndpoint = endpoint]
          /\ IF ArrayThrows(allNodes)
               THEN NextEndpoint(c, cyc[c], env)
               ELSE ClusterReturn(c, cyc[c],
                                  [isNull |-> FALSE, list |-> ClusterSelect(allNodes)],
                                  env)
  /\ UNCHANGED <<customPNodes, asideVars>>

\* Lines 726-745 and the return into refreshNodes.
PassEnd(c, rec) ==
  /\ isConnected' = (rec.connectedCount > 0)
  /\ lastError' = IF rec.connectedCount = 0 /\ Len(rec.acc) > 0
                    THEN UNREACHABLE ELSE lastError
  /\ Resume(c, rec, Dedup(<< >>, rec.acc))

\* Promise.all of the batch resolved: lines 690-724.
BatchEnd(c, rec) ==
  IF ResultsThrow(rec.parts)
    THEN /\ Caught(c, rec)
         /\ UNCHANGED <<isConnected, lastError>>
    ELSE LET r == [rec EXCEPT !.acc = AddResults(rec.acc, rec.batch, rec.parts)]
         IN IF rec.i + batchSize < Len(rec.addresses)
              THEN /\ cyc' = [cyc EXCEPT ![c] = StartBatch(r, rec.i + batchSize)]
                   /\ UNCHANGED <<hookVars, isConnected, lastError>>
              ELSE PassEnd(c, r)

\* A call to the k-th address of the batch resolved (lines 626-665); the
\* address's next call starts, or its task ends.
RpcResponse(c, k) ==
  /\ cyc[c].pc = "poll"
  /\ k \in Indices(cyc[c].batch)
  /\ cyc[c].calls[k] < 4
  /\ LET call == cyc[c].calls[k] + 1
         o == Outcome(cyc[c].scen, cyc[c].batch[k])
         rec == [cyc[c] EXCEPT
                   !.calls[k] = call,
                   !.completed = IF call = 4 THEN @ \cup {cyc[c].batch[k]} ELSE @,
                   !.parts[k] = OnResponse(@, call, o),
                   !.connectedCount = IF CountsAsConnected(call, o) THEN @ + 1 ELSE @]
     IN IF \A j \in Indices(rec.calls) : rec.calls[j] = 4
          THEN BatchEnd(c, rec)
          ELSE /\ cyc' = [cyc EXCEPT ![c] = rec]
               /\ UNCHANGED <<hookVars, isConnected, lastError>>
  /\ UNCHANGED <<customPNodes, centralRpcEndpoint, localStorage, asideVars>>

(***************************************************************************)
(* Enrichment (usePNodes lines 32-45 and 90-100).                          *)
(***************************************************************************)
\* idx of line 94, 1-based
IdxOf(rec) == FindIndex(rec.sortedNodes, rec.nodesWithIp[rec.gi].pubkey)

\* The geo service answered with status success, or the lookup failed
\* (another status, a rejected fetch, an unreadable body): getGeoLocation
\* returns null and enrichNodeWithGeo sets nothing.
GeoResponse(c) ==
  /\ cyc[c].pc = "geo"
  /\ \E success \in BOOLEAN :
       /\ nodes' = IF success
                     THEN EnrichUpdate(nodes, IdxOf(cyc[c]),
                                       GeoOf(cyc[c].nodesWithIp[cyc[c].gi].ip))
                     ELSE nodes
       /\ AfterLookup(c, [cyc[c] EXCEPT
                            !.lastGeo = IF success THEN "success" ELSE "failed"])
  /\ UNCHANGED <<stats, connectionStatus, serviceVars, asideVars>>

\* The 1.5 s timer of line 98 fired.
PauseElapsed(c) ==
  /\ cyc[c].pc = "pause"
  /\ Iterate(c, [cyc[c] EXCEPT !.gi = @ + 1])
  /\ UNCHANGED <<nodes, stats, connectionStatus, serviceVars, asideVars>>

(***************************************************************************)
(* Configuration by the user.                                              *)
(***************************************************************************)
InSeq(x, s) == \E j \in Indices(s) : s[j] = x

addCustomPNode(address) ==
  /\ ~InSeq(address, customPNodes) /\ ~InSeq(address, KNOWN_PNODE_ADDRESSES)
  /\ customPNodes' = Append(customPNodes, address)
  /\ localStorage' = [localStorage EXCEPT !.customPNodes = customPNodes']
  /\ UNCHANGED <<hookVars, centralRpcEndpoint, isConnected, lastError, cyc, asideVars>>

\* Removing an address that is not in the list rewrites the same list.
removeCustomPNode(address) ==
  /\ InSeq(address, customPNodes)
  /\ LET Other(a) == a # address
     IN customPNodes' = SelectSeq(customPNodes, Other)
  /\ localStorage' = [localStorage EXCEPT !.customPNodes = customPNodes']
  /\ UNCHANGED <<hookVars, centralRpcEndpoint, isConnected, lastError, cyc, asideVars>>

(***************************************************************************)
(* Spec: refresh cycles that overlap freely (initial load, timer ticks,    *)
(* manual refreshes), in the small environment.                            *)
(***************************************************************************)
Next ==
  \/ \E c \in Cycles : refreshNodes(c)
  \/ \E c \in Cycles : \E text \in UserEndpoints : handleSaveRpcEndpoint(c, text)
  \/ \E c \in Cycles : ClusterFail(c, SmallEnv)
  \/ \E c \in Cycles : ClusterArray(c, SmallEnv)
  \/ \E c \in Cycles : \E k \in 1..batchSize : RpcResponse(c, k)
  \/ \E c \in Cycles : GeoResponse(c)
  \/ \E c \in Cycles : PauseElapsed(c)

Spec == Init /\ [][Next]_vars

(***************************************************************************)
(* SpecPass: the initial load alone (refreshInterval = 0, no manual        *)
(* refresh), in every environment, while the user edits the custom         *)
(* address list.                                                           *)
(***************************************************************************)
NextPass ==
  \/ refreshNodes(1)
  \/ ClusterFail(1, AnyEnv)
  \/ ClusterArray(1, AnyEnv)
  \/ \E k \in 1..batchSize : RpcResponse(1, k)
  \/ GeoResponse(1)
  \/ PauseElapsed(1)
  \/ \E a \in CustomChoices : addCustomPNode(a)
  \/ \E a \in CustomChoices : removeCustomPNode(a)

SpecPass == Init /\ [][NextPass]_vars

(***************************************************************************)
(* SpecLive: SpecPass with the progress that the timers of the code force. *)
(* The initial-load effect calls refreshNodes; a cluster-discovery request *)
(* carries AbortSignal.timeout(15000); every attempt of rpcCallToNode is   *)
(* aborted by its setTimeout; the pause is a setTimeout of 1.5 s.  The     *)
(* fetch of getGeoLocation (line 838) carries no signal and no timer, so   *)
(* nothing forces GeoResponse.                                             *)
(***************************************************************************)
Fairness ==
  /\ WF_vars(refreshNodes(1))
  /\ WF_vars(ClusterFail(1, AnyEnv) \/ ClusterArray(1, AnyEnv))
  /\ WF_vars(\E k \in 1..batchSize : RpcResponse(1, k))
  /\ WF_vars(PauseElapsed(1))

SpecLive == Init /\ [][NextPass]_vars /\ Fairness

(***************************************************************************)
(* SpecSelect: the selection of tryGetClusterNodesFromRpc (lines 514-551)  *)
(* on its own, for every array of at most MaxEntries well-formed entries.  *)
(***************************************************************************)
SeqsUpTo(S, n) == UNION { [1..m -> S] : m \in 0..n }

\* Entries: with and without pubkey; without IP, with a reference IP as rpc
\* address only, with another gossip IP before a reference rpc IP, with a
\* reference gossip IP; with a pNode and with a Solana version.
SelectEntries ==
  { Raw(k, ip[1], ip[2], v) :
      k \in {NULL, "idA", "idB"},
      ip \in { <<NULL, NULL>>, <<NULL, AllKnownIps[2]>>,
               <<"8.8.8.8", AllKnownIps[2]>>, <<AllKnownIps[1], NULL>> },
      v \in {V_PNODE, V_SOLANA} }

InitSelect ==
  /\ Boot
  /\ \E allNodes \in SeqsUpTo(SelectEntries, MaxEntries) :
       solo = [fn |-> "select", allNodes |-> allNodes, done |-> FALSE, ret |-> << >>]

\* Lines 514-551 for data.result = solo.allNodes.
SelectFromArray ==
  /\ solo.fn = "select" /\ ~solo.done
  /\ solo' = [solo EXCEPT !.done = TRUE, !.ret = ClusterSelect(solo.allNodes)]
  /\ UNCHANGED <<hookVars, serviceVars, rpcEndpoint, cyc>>

NextSelect == SelectFromArray

SpecSelect == InitSelect /\ [][NextSelect]_vars

(***************************************************************************)
(* SpecDedup: the deduplication of getPnodeGossip (lines 733-745) on its   *)
(* own, one loop iteration per step, for every list of at most MaxNodes    *)
(* records.                                                                *)
(***************************************************************************)
\* Health and latency as lines 620-665 and 712-713 leave them: unknown has
\* no latency, unhealthy has the latency of getHealth, healthy has one
\* unless getClusterNodes alone answered.
Readings ==
  { <<"unknown", NoLatency>>, <<"unhealthy", 41>>, <<"unhealthy", 70>>,
    <<"healthy", NoLatency>>, <<"healthy", 41>>, <<"healthy", 70>> }

\* Records of two keys with these readings.
DedupRecords ==
  { PNode(k, NullVersion, r[1], r[2], TRUE, "") :
      k \in {"idA", "idB"}, r \in Readings }

InitDedup ==
  /\ Boot
  /\ \E list \in SeqsUpTo(DedupRecords, MaxNodes) :
       solo = [fn |-> "dedup", nodes |-> list, rest |-> list, uniqueNodes |-> << >>]

\* One iteration of `for (const node of nodes)` (lines 735-743).
DedupStep ==
  /\ solo.fn = "dedup" /\ solo.rest # << >>
  /\ solo' = [solo EXCEPT !.uniqueNodes = Dedup(@, <<Head(solo.rest)>>),
                          !.rest = Tail(@)]
  /\ UNCHANGED <<hookVars, serviceVars, rpcEndpoint, cyc>>

NextDedup == DedupStep

SpecDedup == InitDedup /\ [][NextDedup]_vars

(***************************************************************************)
(* SpecRecord: the four calls to one address (lines 620-665) on their own, *)
(* one response per step, for every combination of results.                *)
(***************************************************************************)
HealthResults == {NULL, "ok", "status:ok", "behind"}
VersionResults ==
  { NoVersionResult, [ok |-> TRUE, core |-> V_PNODE], [ok |-> TRUE, core |-> V_EMPTY] }
IdentityResults ==
  { NoIdentityResult, [ok |-> TRUE, id |-> "idA"], [ok |-> TRUE, id |-> ""] }
ClusterResults ==
  { NoCluster, [kind |-> "array", list |-> << >>],
    [kind |-> "array", list |-> B_SOLO], [kind |-> "other", list |-> << >>] }

Outcomes ==
  [health : HealthResults, version : VersionResults, identity : IdentityResults,
   cluster : ClusterResults, lat : {<<41, 82, 123, 164>>}]

InitRecord ==
  /\ Boot
  /\ \E o \in Outcomes :
       solo = [fn |-> "record", o |-> o, calls |-> 0, part |-> NewPart,
               connectedCount |-> 0]

\* The next of the four calls resolved.
RecordStep ==
  /\ solo.fn = "record" /\ solo.calls < 4
  /\ solo' = [solo EXCEPT
                !.calls = @ + 1,
                !.part = OnResponse(@, solo.calls + 1, solo.o),
                !.connectedCount =
                   IF CountsAsConnected(solo.calls + 1, solo.o) THEN @ + 1 ELSE @]
  /\ UNCHANGED <<hookVars, serviceVars, rpcEndpoint, cyc>>

NextRecord == RecordStep

SpecRecord == InitRecord /\ [][NextRecord]_vars

(***************************************************************************)
(* SpecCall: rpcCallToNode (lines 386-462) and the probe checkLocalProxy   *)
(* (lines 321-332) on their own, one transport attempt per step, for every *)
(* outcome of the relay attempt and of the direct attempt.                 *)
(* this.localProxyAvailable is "null" until the probe or a call sets it.   *)
(***************************************************************************)
\* Calls of rpcCallToNode made one after the other.
MaxCalls == 2

\* How one fetch attempt ends: fetch rejects ("network", "timeout" by
\* controller.abort()), the status is not ok ("notok"), response.json()
\* rejects ("badbody"), the body is JSON null so that reading data.error
\* throws ("nullbody"), the body carries an error field ("error"), or it
\* carries none, with a result ("result") or without one ("noresult").
AttemptOutcomes ==
  {"network", "timeout", "notok", "badbody", "nullbody", "error", "result", "noresult"}

\* The outcomes that raise an exception inside the attempt.
Throws(out) == out \in {"network", "timeout", "badbody", "nullbody"}

\* data.result as T
ResultOf(out) == IF out = "result" THEN "value" ELSE NULL

\* The relay's try block spans fetch and response.json() (lines 403-428):
\* every exception of the attempt is caught.
RelayCatches(out) == Throws(out)

\* DirectCatches for a catch that handles a rejected fetch only: C22 must
\* tell the two apart.
DirectCatchesFetchOnly(out) == out \in {"network", "timeout"}

\* The direct try block spans fetch and response.json() (lines 437-459).
DirectCatches(out) == Throws(out)

\* RelayBlock falling through to the direct attempt on an error field: C23
\* must tell the two apart.
RelayBlockErrorFallsThrough(available, out) ==
  CASE out \in {"result", "noresult"} ->
         [end |-> "return", result |-> ResultOf(out), available |-> "true"]
    [] Throws(out) /\ RelayCatches(out) ->
         [end |-> "next", result |-> NULL,
          available |-> IF available = "null" THEN "false" ELSE available]
    [] Throws(out) /\ ~RelayCatches(out) ->
         [end |-> "throw", result |-> NULL, available |-> available]
    [] OTHER ->
         [end |-> "next", result |-> NULL, available |-> available]

\* Lines 402-434 once the relay attempt ended with `out`: the call returns,
\* goes on to the direct attempt, or an exception leaves it.
RelayBlock(available, out) ==
  CASE out \in {"result", "noresult"} ->
         [end |-> "return", result |-> ResultOf(out), available |-> "true"]
    [] out = "error" ->
         [end |-> "return", result |-> NULL, available |-> available]
    [] Throws(out) /\ RelayCatches(out) ->
         [end |-> "next", result |-> NULL,
          available |-> IF available = "null" THEN "false" ELSE available]
    [] Throws(out) /\ ~RelayCatches(out) ->
         [end |-> "throw", result |-> NULL, available |-> available]
    [] OTHER ->
         [end |-> "next", result |-> NULL, available |-> available]

\* Lines 437-461 once the direct attempt ended with `out`.
DirectBlock(out) ==
  CASE out \in {"result", "noresult"} -> [end |-> "return", result |-> ResultOf(out)]
    [] Throws(out) /\ ~DirectCatches(out) -> [end |-> "throw", result |-> NULL]
    [] OTHER -> [end |-> "return", result |-> NULL]

NoReturn == [result |-> NULL, latency |-> NoLatency]

\* pc: "idle" no call made; "relay" / "direct" awaiting that attempt;
\* "returned" the promise resolved to ret; "threw" the promise rejected.
\* atStart, attempts and elapsed are the history of the current call.
InitCall ==
  /\ Boot
  /\ solo = [fn |-> "rpc", localProxyAvailable |-> "null", probe |-> "pending",
             n |-> 0, pc |-> "idle", atStart |-> "null", attempts |-> << >>,
             elapsed |-> 0, ret |-> NoReturn]

\* The probe's fetch ended: response.ok, or the catch block.
checkLocalProxy(ok) ==
  /\ solo.fn = "rpc" /\ solo.probe = "pending"
  /\ solo' = [solo EXCEPT !.probe = "done",
                          !.localProxyAvailable = IF ok THEN "true" ELSE "false"]
  /\ UNCHANGED <<hookVars, serviceVars, rpcEndpoint, cyc>>

\* rpcCallToNode is called: lines 392-407, or 392-441 when the relay is
\* skipped.
CallStart ==
  /\ solo.fn = "rpc" /\ solo.pc \in {"idle", "returned"} /\ solo.n < MaxCalls
  /\ solo' = [solo EXCEPT
                !.n = @ + 1,
                !.pc = IF solo.localProxyAvailable # "false" THEN "relay" ELSE "direct",
                !.atStart = solo.localProxyAvailable,
                !.attempts = << >>, !.elapsed = 0, !.ret = NoReturn]
  /\ UNCHANGED <<hookVars, serviceVars, rpcEndpoint, cyc>>

\* The relay attempt ended after ms milliseconds.
RelayDone(out, ms) ==
  /\ solo.fn = "rpc" /\ solo.pc = "relay"
  /\ LET b == RelayBlock(solo.localProxyAvailable, out)
     IN solo' = [solo EXCEPT
                   !.localProxyAvailable = b.available,
                   !.attempts = Append(@, <<"relay", out>>),
                   !.elapsed = @ + ms,
                   !.pc = CASE b.end = "return" -> "returned"
                            [] b.end = "throw" -> "threw"
                            [] OTHER -> "direct",
                   !.ret = IF b.end = "return"
                             THEN [result |-> b.result, latency |-> solo.elapsed + ms]
                             ELSE @]
  /\ UNCHANGED <<hookVars, serviceVars, rpcEndpoint, cyc>>

\* The direct attempt ended after ms milliseconds.
DirectDone(out, ms) ==
  /\ solo.fn = "rpc" /\ solo.pc = "direct"
  /\ LET b == DirectBlock(out)
     IN solo' = [solo EXCEPT
                   !.attempts = Append(@, <<"direct", out>>),
                   !.elapsed = @ + ms,
                   !.pc = IF b.end = "throw" THEN "threw" ELSE "returned",
                   !.ret = IF b.end = "return"
                             THEN [result |-> b.result, latency |-> solo.elapsed + ms]
                             ELSE @]
  /\ UNCHANGED <<hookVars, serviceVars, rpcEndpoint, cyc>>

\* Milliseconds an attempt may take.
AttemptMs == {0, 7}

NextCall ==
  \/ \E ok \in BOOLEAN : checkLocalProxy(ok)
  \/ CallStart
  \/ \E out \in AttemptOutcomes : \E ms \in AttemptMs : RelayDone(out, ms)
  \/ \E out \in AttemptOutcomes : \E ms \in AttemptMs : DirectDone(out, ms)

SpecCall == InitCall /\ [][NextCall]_vars

(***************************************************************************)
(* SpecVersion: isXandeumVersion (lines 470-479) on its own, for null, the *)
(* empty string, sample versions and every string one edit away from them. *)
(***************************************************************************)
V_PNODE2 == <<"0", ".", "7", "1", "4", ".", "3", "0", "0", "0", "8">>
V_VNODE2 ==
  <<"1", "2", ".", "3", ".", "4", "5", "-", "b", "5", "a", "9", "4", "6", "8", "8">>
V_ABC == <<"a", "b", "c">>

\* Characters an edit writes: digits, the separators, letters inside and
\* outside a-f, an upper-case letter, a blank.
EditChars == {"0", "9", ".", "-", "a", "f", "g", "A", " "}

Substitutions(v) == { [v EXCEPT ![i] = ch] : i \in Indices(v), ch \in EditChars }

Deletions(v) == { SubSeq(v, 1, i - 1) \o SubSeq(v, i + 1, Len(v)) : i \in Indices(v) }

Insertions(v) ==
  { SubSeq(v, 1, i) \o <<ch>> \o SubSeq(v, i + 1, Len(v)) :
      i \in 0..Len(v), ch \in EditChars }

SampleVersions == {V_PNODE, V_PNODE2, V_VNODE, V_VNODE2, V_SOLANA}

VersionInputs ==
  {NullVersion, V_EMPTY, V_ABC} \cup SampleVersions
    \cup UNION { Substitutions(v) \cup Deletions(v) \cup Insertions(v) :
                   v \in SampleVersions }

InitVersion ==
  /\ Boot
  /\ \E version \in VersionInputs :
       solo = [fn |-> "classify", version |-> version, done |-> FALSE, ret |-> FALSE]

\* isXandeumVersion(solo.version) is called and returns.
Classify ==
  /\ solo.fn = "classify" /\ ~solo.done
  /\ solo' = [solo EXCEPT !.done = TRUE, !.ret = isXandeumVersion(solo.version)]
  /\ UNCHANGED <<hookVars, serviceVars, rpcEndpoint, cyc>>

NextVersion == Classify

SpecVersion == InitVersion /\ [][NextVersion]_vars

(***************************************************************************)
(* Properties.                                                             *)
(***************************************************************************)
Enriching(c) == cyc[c].pc \in {"geo", "pause"}

NoDuplicateKeys(s) ==
  \A i, j \in Indices(s) : i # j => s[i].pubkey # s[j].pubkey

\* C1: at any moment at most one geo-lookup is in flight, and no geo-lookup
\* is in flight while the 1.5 s pause that follows another lookup is still
\* running, whatever the interleaving of refresh cycles.
C1_OneGeoLookupAtATime ==
  \A c, d \in Cycles :
    c # d => ~(cyc[c].pc = "geo" /\ cyc[d].pc \in {"geo", "pause"})

\* C2: every location in the published node set is the location of the IP of
\* the node that carries it.
C2_LocationOnItsNode ==
  \A i \in Indices(nodes) :
    nodes[i].location # NoLocation => nodes[i].location.of = nodes[i].ip

\* C3: the published node set and every list returned by getPnodeGossip hold
\* no two nodes with the same pubkey.
C3_NoDuplicatePubkey ==
  /\ NoDuplicateKeys(nodes)
  /\ \A c \in Cycles : NoDuplicateKeys(cyc[c].fetched)

\* C4: for every node of a list returned by getPnodeGossip, isPNode is the
\* version classifier applied to the node's version.
C4_KindFromVersion ==
  \A c \in Cycles : \A i \in Indices(cyc[c].fetched) :
    cyc[c].fetched[i].isPNode = isXandeumVersion(cyc[c].fetched[i].version)

\* C5: a cycle in which every cluster-discovery endpoint failed and the
\* fallback's reachable count is zero ends with the connection state error
\* and with the diagnostic recorded.
C5_TotalFailureIsError ==
  \A c \in Cycles :
    ( /\ cyc[c].pc = "done"
      /\ \A d \in Cycles : d # c => cyc[d].pc = "idle"
      /\ centralRpcEndpoint = NULL
      /\ cyc[c].polling /\ cyc[c].rpcNodes.isNull
      /\ cyc[c].connectedCount = 0 /\ ~cyc[c].failed )
    => (connectionStatus = "error" /\ lastError = UNREACHABLE)

\* C6: when a cycle has ended with the connection state error (and no later
\* cycle has started), the published statistics are all zero, and that cycle
\* issued no geo-lookup.
C6_ErrorZeroesStats ==
  \A c \in Cycles :
    ( /\ cyc[c].pc = "done" /\ cyc[c].failed
      /\ \A d \in Cycles : d > c => cyc[d].pc = "idle" )
    => (stats = ZeroStats /\ cyc[c].lookups = 0)

\* Sum of the known latencies of the first k nodes of s.
RECURSIVE KnownLatencySum(_, _)
KnownLatencySum(s, k) ==
  IF k = 0 THEN 0
  ELSE (IF s[k].latency # NoLatency THEN s[k].latency ELSE 0)
         + KnownLatencySum(s, k - 1)

\* avg is sum / n rounded to the nearest integer, halves up; 0 when n = 0.
IsRoundedMean(avg, sum, n) ==
  IF n = 0 THEN avg = 0
  ELSE 2 * avg * n - n <= 2 * sum /\ 2 * sum < 2 * avg * n + n

StatsDescribe(st, s) ==
  /\ st.totalNodes = Len(s)
  /\ st.healthyNodes = Cardinality({i \in Indices(s) : s[i].health = "healthy"})
  /\ IsRoundedMean(st.avgLatency, KnownLatencySum(s, Len(s)),
                   Cardinality({i \in Indices(s) : s[i].latency # NoLatency}))

\* C7: in the step in which a cycle leaves discovery with nodes, the
\* connection state is connected and the statistics describe the list it
\* publishes, first geo-lookup included in that step or later; a step taken
\* while the cycle is enriching changes neither.
C7_StatsBeforeEnrichment ==
  [][\A c \in Cycles :
       /\ ( /\ cyc[c].pc \in {"cluster", "poll"}
            /\ cyc'[c].pc \in {"geo", "pause", "done"}
            /\ ~cyc'[c].failed )
          => ( /\ connectionStatus' = "connected"
               /\ StatsDescribe(stats', nodes')
               /\ cyc'[c].lookups <= 1 )
       /\ Enriching(c)
          => (stats' = stats /\ connectionStatus' = connectionStatus)
    ]_vars

C7_Witness ==
  /\ cyc[1].pc = "geo" /\ cyc[1].gi = 1 /\ cyc[1].polling
  /\ connectionStatus = "connected"
  /\ stats = [totalNodes |-> 3, healthyNodes |-> 2, avgLatency |-> 56]

\* C8: within one call of getPnodeGossip an address is polled only if
\* cluster discovery returned null or an empty list; a non-empty list is
\* returned as it is and no address is polled.
C8_FallbackOnlyAfterEmptyDiscovery ==
  \A c \in Cycles :
    /\ cyc[c].contacted # << >>
         => (cyc[c].rpcNodes.isNull \/ cyc[c].rpcNodes.list = << >>)
    /\ (Enriching(c) /\ cyc[c].rpcNodes.list # << >>)
         => (cyc[c].fetched = cyc[c].rpcNodes.list /\ cyc[c].contacted = << >>)

C8_Witness ==
  /\ cyc[1].pc = "poll"
  /\ ~cyc[1].rpcNodes.isNull /\ cyc[1].rpcNodes.list = << >>
  /\ cyc[1].contacted # << >>

CeilDiv(n, d) == (n + d - 1) \div d

\* C9: a fallback pass polls the reference list followed by the custom
\* addresses, each once and in list order, in ceil(N / batchSize) batches; at
\* most batchSize addresses are being polled at a time, and every address of
\* an earlier batch has completed its calls before a batch starts.
C9_BatchedPolling ==
  \A c \in Cycles :
    LET r == cyc[c]
        N == Len(r.addresses)
        before == Len(r.contacted) - Len(r.batch)
    IN r.polling /\ r.pc \in {"poll", "geo", "pause"} =>
         /\ SubSeq(r.addresses, 1, NumKnown) = KNOWN_PNODE_ADDRESSES
         /\ \A j \in (NumKnown + 1)..N : r.addresses[j] \in CustomChoices
         /\ \A j, k \in Indices(r.addresses) : j # k => r.addresses[j] # r.addresses[k]
         /\ Len(r.contacted) <= N
         /\ r.contacted = SubSeq(r.addresses, 1, Len(r.contacted))
         /\ Len(r.batch) <= batchSize
         /\ r.batch = SubSeq(r.contacted, before + 1, Len(r.contacted))
         /\ before = (r.batches - 1) * batchSize
         /\ \A j \in 1..before : r.contacted[j] \in r.completed
         /\ r.pc \in {"geo", "pause"} =>
              (r.contacted = r.addresses /\ r.batches = CeilDiv(N, batchSize))

C9_Witness ==
  /\ cyc[1].pc = "poll" /\ cyc[1].batches = 2
  /\ Len(cyc[1].addresses) = NumKnown + 1
  /\ \E k \in Indices(cyc[1].calls) : cyc[1].calls[k] < 4

\* C10: a cluster-discovery pass stops at the first endpoint that answers ok
\* with an array result and no error field: no later endpoint is requested,
\* and that endpoint is the active endpoint in memory and in storage; a pass
\* that returned null leaves the active endpoint as it was.
C10_StopsAtFirstArray ==
  \A c \in Cycles :
    /\ ( /\ \A d \in Cycles : d # c => cyc[d].pc = "idle"
         /\ cyc[c].pc \in {"cluster", "poll", "geo", "pause"}
         /\ centralRpcEndpoint # NULL )
       => ( /\ cyc[c].pc # "cluster"
            /\ cyc[c].ep <= Len(cyc[c].endpoints)
            /\ cyc[c].endpoints[cyc[c].ep] = centralRpcEndpoint
            /\ localStorage.rpcEndpoint = centralRpcEndpoint )
    /\ ( /\ \A d \in Cycles : d # c => cyc[d].pc = "idle"
         /\ cyc[c].polling /\ cyc[c].rpcNodes.isNull )
       => centralRpcEndpoint = NULL

\* C11: within one cluster-discovery pass no endpoint URL is requested more
\* than once (ep counts the requests of the pass, made in list order).
C11_NoEndpointRequestedTwice ==
  \A c \in Cycles :
    cyc[c].pc = "cluster" =>
      \A j, k \in 1..cyc[c].ep :
        j # k => cyc[c].endpoints[j] # cyc[c].endpoints[k]

\* C12: while the endpoint the user saved is E (not empty), every pass that
\* starts contacts E first and then the fixed fallback sequence.
C12_OverrideContactedFirst ==
  [][\A c \in Cycles :
       (cyc[c].pc = "idle" /\ cyc'[c].pc = "cluster" /\ rpcEndpoint' # "")
         => cyc'[c].endpoints = <<rpcEndpoint'>> \o XANDEUM_RPC_ENDPOINTS
    ]_vars

\* C13: a step of a running refresh cycle (cluster discovery, direct-query
\* fallback, enrichment) changes neither the active endpoint, in memory or
\* persisted, nor the custom address list.
C13_ConfigChangesOnlyByUser ==
  [][\A c \in Cycles :
       (cyc[c].pc # "idle" /\ cyc'[c] # cyc[c])
         => UNCHANGED <<centralRpcEndpoint, localStorage, customPNodes>>
    ]_vars

\* Entry e of a response matches: its version classifies as a target node,
\* or its IP (gossip IP, else rpc IP) is one of the reference list.
IpMatches(e) ==
  (IF Truthy(e.gossipIp) THEN e.gossipIp ELSE e.rpcIp)
    \in { KNOWN_PNODE_ADDRESSES[i].ip : i \in Indices(KNOWN_PNODE_ADDRESSES) }

Matches(e) == pnodePattern(e.version) \/ vnodePattern(e.version) \/ IpMatches(e)

Occurrences(s, x) == Cardinality({ i \in Indices(s) : s[i] = x })

\* C14: the result of the selection holds exactly once every
\* matching entry of the array and no other entry; it holds every entry of
\* the array when no entry matches.
C14_EveryMatchExactlyOnce ==
  (solo.fn = "select" /\ solo.done) =>
    LET all == solo.allNodes
        matching == { i \in Indices(all) : Matches(all[i]) }
    IN IF matching = {}
         THEN solo.ret = [i \in Indices(all) |-> mapClusterNodeToPNode(all[i])]
         ELSE /\ Len(solo.ret) = Cardinality(matching)
              /\ \A i \in matching :
                   Occurrences(solo.ret, mapClusterNodeToPNode(all[i]))
                     = Cardinality({ j \in matching : all[j] = all[i] })

\* The records of s with key k.
WithKey(s, k) == { i \in Indices(s) : s[i].pubkey = k }

Keys(s) == { s[i].pubkey : i \in Indices(s) }

\* The record kept for key k in s, which holds k once.
Kept(s, k) == s[CHOOSE i \in Indices(s) : s[i].pubkey = k]

\* node tells more than the kept record: it is healthy and kept is not, or
\* its latency is known and kept's is not.
TellsMore(node, kept) ==
  \/ (node.health = "healthy" /\ kept.health # "healthy")
  \/ (node.latency # NoLatency /\ kept.latency = NoLatency)

\* C15: the fold holds one record per key met so far; an iteration leaves
\* the records of the other keys as they are, keeps the first-seen record of
\* the incoming key unless the incoming record tells more, and then replaces
\* it by the incoming record as a whole; at the end the output holds exactly
\* the keys of the input, each once.
C15_DedupKeepsFirstUnlessMoreInfo ==
  /\ [](solo.fn = "dedup" =>
          /\ \A k \in Keys(solo.uniqueNodes) :
               Cardinality(WithKey(solo.uniqueNodes, k)) = 1
          /\ Keys(solo.uniqueNodes)
               = Keys(SubSeq(solo.nodes, 1, Len(solo.nodes) - Len(solo.rest))))
  /\ [][(solo.fn = "dedup" /\ solo.rest # << >>) =>
          LET node == Head(solo.rest)
              before == solo.uniqueNodes
              after == solo'.uniqueNodes
          IN /\ \A k \in Keys(before) \ {node.pubkey} :
                  Kept(after, k) = Kept(before, k)
             /\ Kept(after, node.pubkey) =
                  IF node.pubkey \notin Keys(before) THEN node
                  ELSE IF TellsMore(node, Kept(before, node.pubkey)) THEN node
                  ELSE Kept(before, node.pubkey)
       ]_vars

\* A fold in which the second record replaced the first and the third,
\* of the same key, did not replace the second.
C15_Witness ==
  /\ solo.fn = "dedup" /\ solo.rest = << >>
  /\ Len(solo.nodes) = 3 /\ Len(solo.uniqueNodes) = 1
  /\ solo.nodes[1] # solo.nodes[2] /\ solo.nodes[3] # solo.nodes[2]
  /\ solo.uniqueNodes[1] = solo.nodes[2]

\* C16: whenever an iteration of the fold replaces the kept record by an
\* incoming one with a different health, the incoming record is healthy.
C16_HealthNeverDowngraded ==
  [][(solo.fn = "dedup" /\ solo.rest # << >>) =>
       LET node == Head(solo.rest)
       IN (/\ node.pubkey \in Keys(solo.uniqueNodes)
           /\ Kept(solo'.uniqueNodes, node.pubkey).health
                # Kept(solo.uniqueNodes, node.pubkey).health)
          => node.health = "healthy"
    ]_vars

\* C17: the merge of its own output changes nothing, and the merge of the
\* output followed by itself is the output.
C17_MergeIdempotent ==
  (solo.fn = "dedup" /\ solo.rest = << >>) =>
    /\ Dedup(<< >>, solo.uniqueNodes) = solo.uniqueNodes
    /\ Dedup(<< >>, solo.uniqueNodes \o solo.uniqueNodes) = solo.uniqueNodes

\* An output of two records, one of which replaced an earlier one.
C17_Witness ==
  /\ solo.fn = "dedup" /\ solo.rest = << >>
  /\ Len(solo.nodes) = 3 /\ Len(solo.uniqueNodes) = 2
  /\ \E i \in Indices(solo.uniqueNodes) : solo.uniqueNodes[i] = solo.nodes[3]
  /\ solo.nodes[1].pubkey = solo.nodes[3].pubkey

\* The health the probe and the evidence of reachability give for results o.
ProbeThenEvidence(o, health) ==
  /\ o.health # NULL =>
       health = (IF o.health \in {"ok", "status:ok"} THEN "healthy" ELSE "unhealthy")
  /\ (o.health = NULL /\ (o.version.ok \/ o.identity.ok)) => health = "healthy"

\* C18 (as claimed): a non-null getHealth result decides the health (ok:
\* healthy, else unhealthy) whatever the other calls return; without it, a
\* getVersion or getIdentity result makes the health healthy; the health is
\* unknown exactly when all four calls returned null.
C18_HealthPrecedence ==
  (solo.fn = "record" /\ solo.calls = 4) =>
    /\ ProbeThenEvidence(solo.o, solo.part.health)
    /\ solo.part.health = "unknown" <=>
         ( /\ solo.o.health = NULL /\ ~solo.o.version.ok /\ ~solo.o.identity.ok
           /\ solo.o.cluster.kind = "null" )

\* C18 (amended): as claimed, but the health is unknown exactly when
\* getHealth, getVersion and getIdentity returned no result and
\* getClusterNodes returned no array.
C18_HealthPrecedenceNoArray ==
  (solo.fn = "record" /\ solo.calls = 4) =>
    /\ ProbeThenEvidence(solo.o, solo.part.health)
    /\ solo.part.health = "unknown" <=>
         ( /\ solo.o.health = NULL /\ ~solo.o.version.ok /\ ~solo.o.identity.ok
           /\ solo.o.cluster.kind # "array" )

\* Only getClusterNodes answered, with a result that is no array.
C18_Witness ==
  /\ solo.fn = "record" /\ solo.calls = 4
  /\ solo.o.health = NULL /\ ~solo.o.version.ok /\ ~solo.o.identity.ok
  /\ solo.o.cluster.kind = "other"
  /\ solo.part.health = "unknown"

\* The address returned a non-null result to at least one of its calls.
Answered(o) ==
  o.health # NULL \/ o.version.ok \/ o.identity.ok \/ o.cluster.kind # "null"

\* C19: after a fallback pass the reachable count is the number of polled
\* addresses that returned a non-null result to one of their calls, at most
\* the number of addresses; the diagnostic is recorded exactly when that
\* number is zero and a record exists, and then every polled address has its
\* record, with health unknown and no latency, in the returned list.
C19_ReachableCount ==
  \A c \in Cycles :
    (cyc[c].polling /\ cyc[c].pc \in {"geo", "pause"}) =>
      LET r == cyc[c]
          reached == { j \in Indices(r.addresses) :
                         Answered(Outcome(r.scen, r.addresses[j])) }
      IN /\ r.connectedCount = Cardinality(reached)
         /\ r.connectedCount <= Len(r.addresses)
         /\ (lastError = UNREACHABLE) <=> (reached = {} /\ Len(r.acc) > 0)
         /\ reached = {} =>
              \A j \in Indices(r.addresses) :
                \E i \in Indices(r.fetched) :
                  /\ r.fetched[i].pubkey = r.addresses[j].key
                  /\ r.fetched[i].health = "unknown"
                  /\ r.fetched[i].latency = NoLatency

Located(s) == { i \in Indices(s) : s[i].location # NoLocation }

\* C20: a refresh cycle starts at most GeoCap geo-lookups and at most GeoCap
\* nodes of the list it published carry a location, however many nodes with
\* an address it discovered.
C20_GeoCapPerCycle ==
  \A c \in Cycles :
    /\ cyc[c].lookups <= GeoCap
    /\ Cardinality(Located(nodes)) <= GeoCap

\* A finished cycle that published more than GeoCap nodes with a public
\* address and located GeoCap of them.
C20_Witness ==
  /\ cyc[1].pc = "done" /\ cyc[1].lookups = GeoCap
  /\ Cardinality(Located(nodes)) = GeoCap
  /\ Cardinality({ i \in Indices(nodes) :
                     nodes[i].ip # "" /\ nodes[i].ip # "192.168.1.5" }) > GeoCap

\* An address the geo service can be asked about: not empty, not loopback,
\* not in a private range.
PublicIp(ip) ==
  ip \notin {"", "127.0.0.1", "0.0.0.0", "10.0.0.5", "192.168.1.5"}

PublicNodes(s) == { i \in Indices(s) : PublicIp(s[i].ip) }

\* C21: the enrichment candidates of a cycle all have a public IP, and a
\* cycle that published at least GeoCap nodes with a public IP has GeoCap
\* candidates.
C21_CandidatesHaveUsableAddress ==
  \A c \in Cycles :
    Enriching(c) =>
      /\ \A j \in Indices(cyc[c].nodesWithIp) : PublicIp(cyc[c].nodesWithIp[j].ip)
      /\ Cardinality(PublicNodes(cyc[c].sortedNodes)) >= GeoCap
           => Len(cyc[c].nodesWithIp) = GeoCap

Tried(transport) ==
  \E i \in Indices(solo.attempts) : solo.attempts[i][1] = transport

EndedWith(transport, outs) ==
  \E i \in Indices(solo.attempts) :
    solo.attempts[i][1] = transport /\ solo.attempts[i][2] \in outs

\* C22: rpcCallToNode never rejects: once its attempts are over it has
\* resolved to a pair of a result and a latency, and the result is null
\* unless an attempt returned an ok response without an error field.
C22_CallNeverThrows ==
  solo.fn = "rpc" =>
    /\ solo.pc # "threw"
    /\ solo.pc = "returned" =>
         /\ solo.ret.latency \in Nat
         /\ solo.ret.result # NULL =>
              (EndedWith("relay", {"result"}) \/ EndedWith("direct", {"result"}))

\* A call whose relay attempt timed out and whose direct attempt got a body
\* that is no JSON.
C22_Witness ==
  /\ solo.fn = "rpc" /\ solo.pc = "returned"
  /\ solo.attempts = << <<"relay", "timeout">>, <<"direct", "badbody">> >>
  /\ solo.ret = [result |-> NULL, latency |-> 14]

\* The direct attempt is made exactly when the relay attempt was skipped or
\* failed by an exception or a status that is not ok.
DirectWhenRelayFailed ==
  /\ Tried("direct") <=>
       ( \/ ~Tried("relay")
         \/ EndedWith("relay", {"network", "timeout", "badbody", "nullbody", "notok"}) )
  /\ EndedWith("relay", {"result", "noresult", "error"}) => ~Tried("direct")

\* C23 (as claimed): a call attempts the relay only if the relay had been
\* detected reachable when the call started; it attempts the direct
\* transport exactly when the relay attempt was skipped or failed at
\* transport level, and not when the relay answered ok with a result or
\* with an error field.
C23_RelayOnlyIfReachable ==
  (solo.fn = "rpc" /\ solo.pc = "returned") =>
    /\ Tried("relay") => solo.atStart = "true"
    /\ DirectWhenRelayFailed

\* C23 (amended): as claimed, but the relay is attempted exactly when it
\* had not been detected unreachable when the call started: also while
\* its reachability is not known yet.
C23_RelayUnlessUnreachable ==
  (solo.fn = "rpc" /\ solo.pc = "returned") =>
    /\ Tried("relay") <=> solo.atStart # "false"
    /\ DirectWhenRelayFailed

\* A call started before the probe ended: the relay refused, the direct
\* attempt answered.
C23_Witness ==
  /\ solo.fn = "rpc" /\ solo.pc = "returned" /\ solo.probe = "pending"
  /\ solo.atStart = "null"
  /\ solo.attempts = << <<"relay", "notok">>, <<"direct", "result">> >>
  /\ solo.ret.result = "value"

\* C24: every refresh cycle that has started eventually finishes, with the
\* loading flag set back to false.
C24_EveryCycleFinishes ==
  \A c \in Cycles : (cyc[c].pc # "idle") ~> (cyc[c].pc = "done" /\ ~loading)

DecimalRun(s) ==
  /\ Len(s) >= 1
  /\ \A i \in Indices(s) : s[i] \in {"0", "1", "2", "3", "4", "5", "6", "7", "8", "9"}

LowerHexRun(s) ==
  \A i \in Indices(s) :
    s[i] \in {"0", "1", "2", "3", "4", "5", "6", "7", "8", "9",
              "a", "b", "c", "d", "e", "f"}

\* A literal 0, a dot, three digits, a dot, five digits.
PNodeShape(v) ==
  /\ Len(v) = 11
  /\ SubSeq(v, 1, 2) = <<"0", ".">>
  /\ DecimalRun(SubSeq(v, 3, 5))
  /\ v[6] = "."
  /\ DecimalRun(SubSeq(v, 7, 11))

\* Three digit runs separated by dots, a hyphen, eight characters of 0-9a-f.
VNodeShape(v) ==
  /\ Len(v) > 9
  /\ v[Len(v) - 8] = "-"
  /\ LowerHexRun(SubSeq(v, Len(v) - 7, Len(v)))
  /\ LET runs == SubSeq(v, 1, Len(v) - 9)
     IN \E p, q \in Indices(runs) :
          /\ p < q /\ runs[p] = "." /\ runs[q] = "."
          /\ DecimalRun(SubSeq(runs, 1, p - 1))
          /\ DecimalRun(SubSeq(runs, p + 1, q - 1))
          /\ DecimalRun(SubSeq(runs, q + 1, Len(runs)))

\* C25: isXandeumVersion returns a boolean for every input; it returns
\* true exactly when the version has the pNode shape or the vNode shape,
\* which exclude each other; it returns false for null, the empty string,
\* 1.18.2 and abc.
C25_ClassifierExact ==
  (solo.fn = "classify" /\ solo.done) =>
    /\ solo.ret \in BOOLEAN
    /\ solo.ret = (PNodeShape(solo.version) \/ VNodeShape(solo.version))
    /\ ~(PNodeShape(solo.version) /\ VNodeShape(solo.version))
    /\ solo.version \in {NullVersion, V_EMPTY, V_SOLANA, V_ABC} => ~solo.ret

\* A vNode version but for an upper-case letter in its hash, rejected.
C25_Witness ==
  /\ solo.fn = "classify" /\ solo.done
  /\ solo.version =
       <<"2", ".", "2", ".", "0", "-", "7", "c", "3", "f", "3", "9", "e", "A">>
  /\ ~solo.ret

\* C26: the step in which a geo-lookup of a cycle fails changes neither the
\* published node set nor the statistics nor the connection state, and the
\* cycle goes on: to the pause before its next candidate, or to its end
\* when the candidate was the last.
C26_FailedLookupChangesNothing ==
  [][\A c \in Cycles :
       (cyc[c].pc = "geo" /\ cyc'[c].pc # "geo" /\ cyc'[c].lastGeo = "failed")
         => /\ UNCHANGED <<nodes, stats, connectionStatus>>
            /\ cyc'[c].pc =
                 IF cyc[c].gi < Len(cyc[c].nodesWithIp) THEN "pause" ELSE "done"
            /\ cyc'[c].pc = "pause" =>
                 (cyc'[c].gi = cyc[c].gi /\ cyc'[c].nodesWithIp = cyc[c].nodesWithIp)
    ]_vars

\* The lookup of the first candidate failed, the one of the second put its
\* location on the second node, and the first node has none.
C26_Witness ==
  /\ cyc[1].pc = "done" /\ cyc[1].lookups = 2 /\ cyc[1].lastGeo = "success"
  /\ Len(nodes) >= 2
  /\ nodes[1].location = NoLocation /\ PublicIp(nodes[1].ip)
  /\ nodes[2].location # NoLocation

\* Cycle c has replaced the published node set by its result.
Published(rec) == rec.pc \in {"geo", "pause", "done"} /\ ~rec.failed

\* C27: once a later-started cycle has replaced the published node set by
\* its result, no earlier-started cycle replaces it by its own.
C27_NoStaleSnapshot ==
  [][\A c, d \in Cycles :
       (c < d /\ Published(cyc[d]) /\ ~Published(cyc[c]))
         => ~Published(cyc'[c])
    ]_vars

Running(rec) == rec.pc \notin {"idle", "done"}

\* C28: the loading flag is true in every state in which some refresh cycle
\* has started and not yet finished.
C28_LoadingWhileRunning ==
  (\E c \in Cycles : Running(cyc[c])) => loading

\* C29: totalNodes is the number of published nodes and healthyNodes the
\* number of published nodes whose health is healthy, in every state.
C29_StatsAgreeWithNodes ==
  /\ stats.totalNodes = Len(nodes)
  /\ stats.healthyNodes
       = Cardinality({ i \in Indices(nodes) : nodes[i].health = "healthy" })

\* The first cycle had published a list with a node that is not healthy;
\* the second replaced it by a shorter one, located its node and ended; the
\* first cycle is looking up a candidate whose index is past the end of the
\* published list.
C29_Witness ==
  /\ cyc[1].pc = "geo" /\ IdxOf(cyc[1]) > Len(nodes)
  /\ cyc[2].pc = "done" /\ ~cyc[2].failed
  /\ \E i \in Indices(nodes) : nodes[i].location # NoLocation
  /\ \E i \in Indices(cyc[1].sortedNodes) : cyc[1].sortedNodes[i].health # "healthy"

\* The identity key of the record of a polled address that answered o.
RecordKey(address, o) ==
  IF o.identity.ok /\ o.identity.id \notin {NULL, ""}
    THEN o.identity.id
    ELSE address.key

\* C30: getPnodeGossip never returns an empty list: a cycle is in the error
\* state only when its catch block ran; a list returned to refreshNodes is
\* not empty, and after a fallback pass it holds a record with the identity
\* key of every polled address, whether or not anything answered.
C30_GossipNeverEmpty ==
  \A c \in Cycles :
    /\ cyc[c].failed => cyc[c].threw
    /\ Enriching(c) => Len(cyc[c].fetched) > 0
    /\ (Enriching(c) /\ cyc[c].polling) =>
         \A j \in Indices(cyc[c].addresses) :
           \E i \in Indices(cyc[c].fetched) :
             cyc[c].fetched[i].pubkey
               = RecordKey(cyc[c].addresses[j], Outcome(cyc[c].scen, cyc[c].addresses[j]))

\* Cluster discovery returned an empty list and no polled address answered:
\* the list returned holds one record per address, and the cycle published
\* it.
C30_Witness ==
  /\ Enriching(1) /\ cyc[1].polling
  /\ ~cyc[1].rpcNodes.isNull /\ cyc[1].rpcNodes.list = << >>
  /\ cyc[1].scen = "dead" /\ cyc[1].connectedCount = 0
  /\ Len(cyc[1].fetched) = Len(cyc[1].addresses)
  /\ Len(cyc[1].addresses) = NumKnown + 1
  /\ connectionStatus = "connected"

====
